---- MODULE Spec2Model ----
(***************************************************************************)
(* Appointment store (models.py), the four tool wrappers of AIAssistant    *)
(* (assistant.py) and the HTTP appointment routes (app.py).                *)
(*                                                                         *)
(* Representation of Python values:                                        *)
(*   - user ids, purposes, ISO date strings and messages are TLA+ strings; *)
(*     None stands for Python's None where a string is expected;           *)
(*   - emails and cancellation reasons are sequences of one-character      *)
(*     strings, because the code looks inside them (regex, strip);         *)
(*     NoneSeq stands for Python's None where such a sequence is expected; *)
(*   - a datetime is the tuple <<year, month, day, hour, minute>>;         *)
(*   - a uuid4 string is a number in Ids.                                  *)
(***************************************************************************)
EXTENDS Integers, Sequences, FiniteSets, TLC

\* Number of uuids the model can draw (appointments ever created).
MaxIds == 2
\* Number of conversation turns the history holds, all users together.
MaxTurns == 2
\* The same where only the chat and image entry points run (ChatSpec).
MaxChatTurns == 6

None == "<None>"
NoneSeq == <<"<None>">>

Ids == 1..MaxIds
Users == {"", "u1"}

\* ---- input alphabets ------------------------------------------------------
D1 == <<2025, 3, 1, 10, 0>>
D2 == <<2025, 3, 2, 9, 30>>
DateTimes == {D1, D2}
EmailA == <<"a", "@", "b", ".", "c", "o">>
EmailNoTld == <<"a", "@", "b">>

\* (date_time, purpose, email) arguments of the create tool: a well-formed
\* call, one whose email has no top-level label, one whose email is empty,
\* one whose date is no ISO date
ToolCreateCalls ==
    {<<"2025-03-01 10:00:00", "checkup", EmailA>>,
     <<"2025-03-01 10:00:00", "checkup", EmailNoTld>>,
     <<"2025-03-01 10:00:00", "checkup", <<>> >>,
     <<"tomorrow", "checkup", EmailA>>}

\* (date_time, purpose, email) bodies of POST /appointments; the email is
\* optional there
RouteCreateCalls ==
    {<<"2025-03-01 10:00:00", "checkup", EmailA>>,
     <<"2025-03-01 10:00:00", "checkup", EmailNoTld>>,
     <<"2025-03-01 10:00:00", "checkup", NoneSeq>>,
     <<"tomorrow", "checkup", EmailA>>}

\* (date_time, purpose, email) arguments of an update, None for an argument
\* left out: the purpose alone, the date alone, date and email, an empty
\* purpose, a date that is no ISO date, and an email without top-level label
\* next to valid fields
UpdateCalls ==
    {<<None, "follow-up", NoneSeq>>,
     <<"2025-03-02T09:30:00", None, NoneSeq>>,
     <<"2025-03-02T09:30:00", None, EmailA>>,
     <<None, "", NoneSeq>>,
     <<"tomorrow", "follow-up", NoneSeq>>,
     <<"2025-03-02T09:30:00", "follow-up", EmailNoTld>>}

ReasonPadded == <<" ", "x">>
ReasonBlank == <<" ">>
ReasonArgs == {ReasonPadded, ReasonBlank, <<>>}
\* default of the reason query parameter of DELETE /appointments/{id}
DefaultReason ==
    <<"U", "s", "e", "r", " ", "r", "e", "q", "u", "e", "s", "t", "e", "d",
      " ", "c", "a", "n", "c", "e", "l", "l", "a", "t", "i", "o", "n">>

\* ---- Python helpers -------------------------------------------------------
\* truth value of an Optional[str]
Truthy(s) == s # None /\ s # ""
\* truth value of an Optional[str] held as a character sequence
TruthySeq(s) == s # NoneSeq /\ s # <<>>
\* Python's `a or b` on Optional[str]
Or(a, b) == IF Truthy(a) THEN a ELSE b
OrSeq(a, b) == IF TruthySeq(a) THEN a ELSE b

ParseError == <<>>
\* datetime.fromisoformat on the date strings above; ParseError stands for
\* the ValueError it raises
fromisoformat(s) ==
    CASE s = "2025-03-01 10:00:00" -> D1
      [] s = "2025-03-02T09:30:00" -> D2
      [] OTHER -> ParseError

\* the letters and digits that occur in the emails of the model
Letters == {"a", "b", "c", "o"}
Digits == {"0", "1"}
LocalChars == Letters \cup Digits \cup {".", "_", "%", "+", "-"}
DomainChars == Letters \cup Digits \cup {".", "-"}
AllIn(s, lo, hi, cls) == \A k \in lo..hi : s[k] \in cls

\* re.match(r'^[a-zA-Z0-9._%+-]+@[a-zA-Z0-9.-]+\.[a-zA-Z]{2,}$', email):
\* i is the position of "@", j the position of the last-label dot, n the end
\* of the match ($ also matches before one trailing newline).
_validate_email(email) ==
    \E n \in {Len(email), Len(email) - 1} :
        /\ n >= 1
        /\ n = Len(email) \/ email[Len(email)] = "\n"
        /\ \E i \in 2..n : \E j \in (i + 2)..(n - 2) :
              /\ email[i] = "@"
              /\ email[j] = "."
              /\ AllIn(email, 1, i - 1, LocalChars)
              /\ AllIn(email, i + 1, j - 1, DomainChars)
              /\ AllIn(email, j + 1, n, Letters)

Whitespace == {" ", "\t", "\n"}
RECURSIVE lstrip(_)
lstrip(s) == IF s # <<>> /\ Head(s) \in Whitespace THEN lstrip(Tail(s)) ELSE s
RECURSIVE rstrip(_)
rstrip(s) ==
    IF s # <<>> /\ s[Len(s)] \in Whitespace
    THEN rstrip(SubSeq(s, 1, Len(s) - 1)) ELSE s
\* str.strip
strip(s) == rstrip(lstrip(s))

\* ---- state ----------------------------------------------------------------
VARIABLES
    appointments,          \* HealthAssistant.appointments: id -> Appointment
    cancellations,         \* HealthAssistant.cancellations: id -> reason
    conversation_history,  \* HealthAssistant.conversation_history
    user_id,               \* AIAssistant.user_id, set by process_query
    request,               \* the process_query call in progress, if any
    issued,                \* every uuid drawn so far
    result,                \* what the last operation returned
    mail                   \* the notification the last operation dispatched

vars == <<appointments, cancellations, conversation_history, user_id,
          request, issued, result, mail>>

\* AIAssistant.current_user_id is set to None in __init__ and never assigned
current_user_id == None

NoRequest == [user_id |-> None, user_input |-> None]
NoMail ==
    [to |-> NoneSeq, subject |-> None, delivered |-> FALSE, raised |-> FALSE]
\* result: the operation, the message it returned, the appointment id the
\* message names (0: none), the ids a listing shows, and the calls the
\* operation made on the store and on send_email, in order
NoResult == [op |-> None, msg |-> None, id |-> 0, shown |-> {}, calls |-> <<>>]
Result(op, msg, id, calls) ==
    [op |-> op, msg |-> msg, id |-> id, shown |-> {}, calls |-> calls]

UserInputs == {"book a checkup tomorrow"}
Outputs == {"done"}

\* ---- messages returned by the tool wrappers -------------------------------
MsgInvalidEmail == "Invalid email format. Please provide a valid email address."
MsgCreated == "Appointment created"
MsgCreateError == "Error creating appointment"
MsgNotFound == "Appointment not found"
MsgUpdateForbidden == "You don't have permission to update this appointment."
MsgUpdated == "Updated appointment"
MsgUpdatedNotified == "Updated appointment. Update notification sent"
MsgUpdateError == "Error updating appointment"
MsgDeleteForbidden == "You don't have permission to delete this appointment."
MsgAborted == "Cancellation aborted: Confirmation was negative"
MsgReasonRequired == "Cancellation requires a reason."
MsgCancelled == "Appointment cancelled"
MsgCancelledNotified == "Appointment cancelled. Cancellation notification sent"
MsgDeleteError == "Error deleting appointment"
MsgNoAppointments == "No appointments found"
MsgYourAppointments == "Your appointments:"

\* ---- models.py: Appointment and HealthAssistant ---------------------------
\* Appointment(user_id=..., date_time=..., purpose=..., email=...): the id
\* comes from the default factory, the status from the field default
Appointment(id, user, date_time, purpose, email) ==
    [id |-> id, user_id |-> user, date_time |-> date_time,
     purpose |-> purpose, status |-> "scheduled", email |-> email]

\* an id scheme that only avoids the ids of the appointments now stored
uuid4_reusing == Ids \ DOMAIN appointments

\* str(uuid.uuid4()): the uuids a create can draw, none of them drawn before
uuid4 == Ids \ issued

\* HealthAssistant.create_appointment, the store after the call
create_appointment(appts, id, user, date_time, purpose, email) ==
    [i \in DOMAIN appts \cup {id} |->
        IF i = id THEN Appointment(id, user, date_time, purpose, email)
        ELSE appts[i]]

\* HealthAssistant.get_appointment: is there an appointment under this id
get_appointment(appts, id) == id \in DOMAIN appts

\* HealthAssistant.update_appointment, the store after the call: setattr of
\* every key of kwargs on the appointment, nothing when the id is unknown
update_appointment(appts, id, kwargs) ==
    IF id \notin DOMAIN appts THEN appts
    ELSE [appts EXCEPT ![id] =
            [f \in DOMAIN appts[id] \cup DOMAIN kwargs |->
                IF f \in DOMAIN kwargs THEN kwargs[f] ELSE appts[id][f]]]

\* log_cancellation_reason recording the reason stripped of whitespace
log_cancellation_reason_stripped(canc, id, reason) ==
    [i \in DOMAIN canc \cup {id} |-> IF i = id THEN strip(reason) ELSE canc[i]]

\* HealthAssistant.log_cancellation_reason, the log after the call (the
\* timestamp of the record is datetime.now() and is not modelled)
log_cancellation_reason(canc, id, reason) ==
    [i \in DOMAIN canc \cup {id} |-> IF i = id THEN reason ELSE canc[i]]

\* delete_appointment that reports success and removes nothing
delete_appointment_keeping(appts, id) == appts

\* HealthAssistant.delete_appointment, the store after the call
delete_appointment(appts, id) ==
    [i \in DOMAIN appts \ {id} |-> appts[i]]

\* HealthAssistant.get_appointments, as the set of ids of the list
get_appointments(appts, user) ==
    {i \in DOMAIN appts : appts[i].user_id = user}

\* save_conversation assigning a one-turn list where the code appends
save_conversation_replacing(hist, user, role, content) ==
    [u \in DOMAIN hist \cup {user} |->
        IF u = user THEN <<(<<role, content>>)>> ELSE hist[u]]

\* HealthAssistant.save_conversation, the history after the call
save_conversation(hist, user, role, content) ==
    [u \in DOMAIN hist \cup {user} |->
        IF u = user
        THEN (IF user \in DOMAIN hist THEN hist[user] ELSE <<>>)
                 \o <<(<<role, content>>)>>
        ELSE hist[u]]

\* number of turns held in the history, all users together
RECURSIVE SumLen(_, _)
SumLen(hist, us) ==
    IF us = {} THEN 0
    ELSE LET u == CHOOSE v \in us : TRUE
         IN Len(hist[u]) + SumLen(hist, us \ {u})
Turns(hist) == SumLen(hist, DOMAIN hist)

\* os.getenv("SMTP_PORT"): not set, set to a port, set to the empty string
SmtpPorts == {None, "587", ""}
\* int(s) on these strings, the number in a one-element tuple; ParseError
\* stands for the ValueError it raises
int(s) == IF s = "587" THEN <<587>> ELSE ParseError
\* int(os.getenv("SMTP_PORT", 587))
smtp_port(SMTP_PORT) == IF SMTP_PORT = None THEN <<587>> ELSE int(SMTP_PORT)

\* utils.send_email: the message, whether it went out and whether the call
\* raised.  The port is converted before the try block, so a ValueError of
\* int() leaves the function; whatever the SMTP session raises is caught
\* and gives the return value False, which no caller reads.
send_email(to, subject, SMTP_PORT, smtp_ok) ==
    [to |-> to, subject |-> subject,
     delivered |-> smtp_port(SMTP_PORT) # ParseError /\ smtp_ok,
     raised |-> smtp_port(SMTP_PORT) = ParseError]

Init ==
    /\ appointments = <<>>
    /\ cancellations = <<>>
    /\ conversation_history = <<>>
    /\ user_id = None
    /\ request = NoRequest
    /\ issued = {}
    /\ result = NoResult
    /\ mail = NoMail

\* ---- assistant.py: process_query and the four tools -----------------------
Invoking == request # NoRequest

\* process_query up to agent.invoke: the effective user is
\* `self.current_user_id or user_id`, stored in self.user_id for the tools
\* (the date parsed from the input only enters the context handed to the
\* interpreter and is not modelled)
process_query(user_input, user) ==
    /\ ~Invoking
    /\ user_id' = Or(current_user_id, user)
    /\ request' = [user_id |-> Or(current_user_id, user),
                   user_input |-> user_input]
    /\ result' = NoResult
    /\ mail' = NoMail
    /\ UNCHANGED <<appointments, cancellations, conversation_history, issued>>

\* agent.invoke returned: both turns are saved, the output is returned
\* (as long as the history holds fewer than max_turns turns)
process_query_return_within(output, max_turns) ==
    /\ Invoking
    /\ LET hist == conversation_history
           u == request.user_id
       IN /\ Turns(hist) + 2 <= max_turns
          /\ conversation_history' =
                save_conversation(
                    save_conversation(hist, u, "user", request.user_input),
                    u, "assistant", output)
    /\ request' = NoRequest
    /\ result' = Result("process_query", output, 0,
                        <<"save_conversation", "save_conversation">>)
    /\ mail' = NoMail
    /\ UNCHANGED <<appointments, cancellations, user_id, issued>>

process_query_return(output) == process_query_return_within(output, MaxTurns)

\* agent.invoke raised: nothing is saved, the route answers 500
process_query_raise ==
    /\ Invoking
    /\ request' = NoRequest
    /\ result' = Result("process_query", "500 Error processing message", 0, <<>>)
    /\ mail' = NoMail
    /\ UNCHANGED <<appointments, cancellations, conversation_history,
                   user_id, issued>>

\* the early returns of _create_appointment_wrapper: the message returned
\* before the store is called, None when the create goes ahead
create_rejection(date_time, email) ==
    IF ~_validate_email(email) THEN MsgInvalidEmail
    ELSE IF fromisoformat(date_time) = ParseError THEN MsgCreateError
    ELSE None

\* AIAssistant._create_appointment_wrapper
_create_appointment_wrapper(date_time, purpose, email) ==
    /\ Invoking
    /\ UNCHANGED <<cancellations, conversation_history, user_id, request>>
    /\ IF create_rejection(date_time, email) # None
       THEN /\ result' = Result("create_appointment",
                                create_rejection(date_time, email), 0, <<>>)
            /\ mail' = NoMail
            /\ UNCHANGED <<appointments, issued>>
       ELSE \E id \in uuid4 : \E port \in SmtpPorts, smtp_ok \in BOOLEAN :
            /\ appointments' =
                  create_appointment(appointments, id, user_id,
                                     fromisoformat(date_time), purpose, email)
            /\ issued' = issued \cup {id}
            /\ mail' = send_email(email, "Appointment Confirmation",
                                  port, smtp_ok)
            /\ result' = IF mail'.raised
                         THEN Result("create_appointment", MsgCreateError, 0,
                                     <<"create_appointment", "send_email">>)
                         ELSE Result("create_appointment", MsgCreated, id,
                                     <<"create_appointment", "send_email">>)

\* update_data with `is not None` tests where the code tests truth values
update_data_not_none(date_time, purpose, email) ==
    [f \in {g \in {"date_time", "purpose", "email"} :
               \/ g = "date_time" /\ Truthy(date_time)
               \/ g = "purpose" /\ purpose # None
               \/ g = "email" /\ email # NoneSeq} |->
        CASE f = "date_time" -> fromisoformat(date_time)
          [] f = "purpose" -> purpose
          [] f = "email" -> email]

\* update_data that also marks an appointment given a new date as rescheduled
update_data_rescheduling(date_time, purpose, email) ==
    [f \in {g \in {"date_time", "purpose", "email", "status"} :
               \/ g = "date_time" /\ Truthy(date_time)
               \/ g = "purpose" /\ Truthy(purpose)
               \/ g = "email" /\ TruthySeq(email)
               \/ g = "status" /\ Truthy(date_time)} |->
        CASE f = "date_time" -> fromisoformat(date_time)
          [] f = "purpose" -> purpose
          [] f = "email" -> email
          [] f = "status" -> "rescheduled"]

\* the update_data dictionary of _update_appointment_wrapper and the
\* update_dict of the PUT route: a key for every argument that is truthy
update_data(date_time, purpose, email) ==
    [f \in {g \in {"date_time", "purpose", "email"} :
               \/ g = "date_time" /\ Truthy(date_time)
               \/ g = "purpose" /\ Truthy(purpose)
               \/ g = "email" /\ TruthySeq(email)} |->
        CASE f = "date_time" -> fromisoformat(date_time)
          [] f = "purpose" -> purpose
          [] f = "email" -> email]

\* the early returns of _update_appointment_wrapper, None when the update
\* goes ahead
update_rejection(appts, user, appointment_id, date_time, email) ==
    IF ~get_appointment(appts, appointment_id) THEN MsgNotFound
    ELSE IF appts[appointment_id].user_id # user THEN MsgUpdateForbidden
    ELSE IF Truthy(date_time) /\ fromisoformat(date_time) = ParseError
    THEN MsgUpdateError
    ELSE IF TruthySeq(email) /\ ~_validate_email(email) THEN MsgInvalidEmail
    ELSE None

\* AIAssistant._update_appointment_wrapper
_update_appointment_wrapper(appointment_id, date_time, purpose, email) ==
    /\ Invoking
    /\ UNCHANGED <<cancellations, conversation_history, user_id, request,
                   issued>>
    /\ LET rejection == update_rejection(appointments, user_id,
                                         appointment_id, date_time, email)
       IN IF rejection # None
          THEN /\ result' = Result("update_appointment", rejection, 0,
                                   <<"get_appointment">>)
               /\ mail' = NoMail
               /\ UNCHANGED appointments
          ELSE LET updated == update_appointment(appointments, appointment_id,
                                  update_data(date_time, purpose, email))
                   notification_email ==
                       OrSeq(email, updated[appointment_id].email)
               IN /\ appointments' = updated
                  /\ IF TruthySeq(notification_email)
                     THEN \E port \in SmtpPorts, smtp_ok \in BOOLEAN :
                          /\ mail' = send_email(notification_email,
                                        "Appointment Update Notification",
                                        port, smtp_ok)
                          /\ result' = Result("update_appointment",
                                         IF mail'.raised THEN MsgUpdateError
                                         ELSE MsgUpdatedNotified,
                                         IF mail'.raised THEN 0
                                         ELSE appointment_id,
                                         <<"get_appointment",
                                           "update_appointment",
                                           "get_appointment", "send_email">>)
                     ELSE /\ mail' = NoMail
                          /\ result' = Result("update_appointment", MsgUpdated,
                                         appointment_id,
                                         <<"get_appointment",
                                           "update_appointment">>)

\* delete_rejection without the test of the confirmation flag
delete_rejection_unconfirmed(appts, user, appointment_id, confirmation, reason) ==
    IF ~get_appointment(appts, appointment_id) THEN MsgNotFound
    ELSE IF appts[appointment_id].user_id # user THEN MsgDeleteForbidden
    ELSE IF ~TruthySeq(reason) \/ strip(reason) = <<>> THEN MsgReasonRequired
    ELSE None

\* delete_rejection with `not reason` alone, the strip() test left out
delete_rejection_unstripped(appts, user, appointment_id, confirmation, reason) ==
    IF ~get_appointment(appts, appointment_id) THEN MsgNotFound
    ELSE IF appts[appointment_id].user_id # user THEN MsgDeleteForbidden
    ELSE IF ~confirmation THEN MsgAborted
    ELSE IF ~TruthySeq(reason) THEN MsgReasonRequired
    ELSE None

\* delete_rejection without the ownership test
delete_rejection_unowned(appts, user, appointment_id, confirmation, reason) ==
    IF ~get_appointment(appts, appointment_id) THEN MsgNotFound
    ELSE IF ~confirmation THEN MsgAborted
    ELSE IF ~TruthySeq(reason) \/ strip(reason) = <<>> THEN MsgReasonRequired
    ELSE None

\* the early returns of _delete_appointment_wrapper, None when the delete
\* goes ahead
delete_rejection(appts, user, appointment_id, confirmation, reason) ==
    IF ~get_appointment(appts, appointment_id) THEN MsgNotFound
    ELSE IF appts[appointment_id].user_id # user THEN MsgDeleteForbidden
    ELSE IF ~confirmation THEN MsgAborted
    ELSE IF ~TruthySeq(reason) \/ strip(reason) = <<>> THEN MsgReasonRequired
    ELSE None

\* AIAssistant._delete_appointment_wrapper
_delete_appointment_wrapper(appointment_id, confirmation, reason) ==
    /\ Invoking
    /\ UNCHANGED <<conversation_history, user_id, request, issued>>
    /\ LET rejection == delete_rejection(appointments, user_id,
                                         appointment_id, confirmation, reason)
       IN IF rejection # None
          THEN /\ result' = Result("delete_appointment", rejection, 0,
                                   <<"get_appointment">>)
               /\ mail' = NoMail
               /\ UNCHANGED <<appointments, cancellations>>
          ELSE LET email == appointments[appointment_id].email
               IN /\ cancellations' =
                        log_cancellation_reason(cancellations, appointment_id,
                                                reason)
                  /\ appointments' =
                        delete_appointment(appointments, appointment_id)
                  /\ IF TruthySeq(email)
                     THEN \E port \in SmtpPorts, smtp_ok \in BOOLEAN :
                          /\ mail' = send_email(email,
                                        "Appointment Cancellation Confirmation",
                                        port, smtp_ok)
                          /\ result' = Result("delete_appointment",
                                         IF mail'.raised THEN MsgDeleteError
                                         ELSE MsgCancelledNotified,
                                         IF mail'.raised THEN 0
                                         ELSE appointment_id,
                                         <<"get_appointment",
                                           "log_cancellation_reason",
                                           "delete_appointment", "send_email">>)
                     ELSE /\ mail' = NoMail
                          /\ result' = Result("delete_appointment",
                                         MsgCancelled, appointment_id,
                                         <<"get_appointment",
                                           "log_cancellation_reason",
                                           "delete_appointment">>)

\* AIAssistant._list_appointments_wrapper: `self.user_id or user_id`
_list_appointments_wrapper(user) ==
    /\ Invoking
    /\ LET shown == get_appointments(appointments, Or(user_id, user))
       IN result' = [op |-> "list_appointments",
                     msg |-> IF shown = {} THEN MsgNoAppointments
                             ELSE MsgYourAppointments,
                     id |-> 0, shown |-> shown,
                     calls |-> <<"get_appointments">>]
    /\ mail' = NoMail
    /\ UNCHANGED <<appointments, cancellations, conversation_history,
                   user_id, request, issued>>

\* ---- app.py: the HTTP appointment routes ----------------------------------
\* POST /appointments
app_create_appointment(user, date_time, purpose, email) ==
    /\ ~Invoking
    /\ UNCHANGED <<cancellations, conversation_history, user_id, request>>
    /\ mail' = NoMail
    /\ IF fromisoformat(date_time) = ParseError
       THEN /\ result' = Result("POST /appointments",
                                "400 Error creating appointment", 0, <<>>)
            /\ UNCHANGED <<appointments, issued>>
       ELSE \E id \in uuid4 :
            /\ appointments' =
                  create_appointment(appointments, id, user,
                                     fromisoformat(date_time), purpose, email)
            /\ issued' = issued \cup {id}
            /\ result' = Result("POST /appointments", "200", id,
                                <<"create_appointment">>)

\* GET /appointments/{user_id}
app_get_appointments(user) ==
    /\ ~Invoking
    /\ result' = [op |-> "GET /appointments", msg |-> "200", id |-> 0,
                  shown |-> get_appointments(appointments, user),
                  calls |-> <<"get_appointments">>]
    /\ mail' = NoMail
    /\ UNCHANGED <<appointments, cancellations, conversation_history,
                   user_id, request, issued>>

\* PUT /appointments/{appointment_id}
app_update_appointment(appointment_id, date_time, purpose, email) ==
    /\ ~Invoking
    /\ UNCHANGED <<cancellations, conversation_history, user_id, request,
                   issued>>
    /\ mail' = NoMail
    /\ IF Truthy(date_time) /\ fromisoformat(date_time) = ParseError
       THEN /\ result' = Result("PUT /appointments",
                                "400 Error updating appointment",
                                0, <<>>)
            /\ UNCHANGED appointments
       ELSE IF ~get_appointment(appointments, appointment_id)
       THEN /\ result' = Result("PUT /appointments",
                                "404 Appointment not found", 0,
                                <<"update_appointment">>)
            /\ UNCHANGED appointments
       ELSE /\ appointments' =
                  update_appointment(appointments, appointment_id,
                                     update_data(date_time, purpose, email))
            /\ result' = Result("PUT /appointments", "200", appointment_id,
                                <<"update_appointment">>)

\* the DELETE route without its existence check: the reason is logged, then
\* the store's delete reports failure
app_delete_appointment_unchecked(appointment_id, reason) ==
    /\ ~Invoking
    /\ UNCHANGED <<conversation_history, user_id, request, issued>>
    /\ mail' = NoMail
    /\ cancellations' =
          log_cancellation_reason(cancellations, appointment_id, reason)
    /\ appointments' = delete_appointment(appointments, appointment_id)
    /\ result' = Result("DELETE /appointments",
                        IF get_appointment(appointments, appointment_id)
                        THEN "200" ELSE "500 Failed to delete appointment",
                        appointment_id,
                        <<"log_cancellation_reason", "delete_appointment">>)

\* DELETE /appointments/{appointment_id}?reason=...
app_delete_appointment(appointment_id, reason) ==
    /\ ~Invoking
    /\ UNCHANGED <<conversation_history, user_id, request, issued>>
    /\ mail' = NoMail
    /\ IF ~get_appointment(appointments, appointment_id)
       THEN /\ result' = Result("DELETE /appointments",
                                "404 Appointment not found", 0,
                                <<"get_appointment">>)
            /\ UNCHANGED <<appointments, cancellations>>
       ELSE /\ cancellations' =
                  log_cancellation_reason(cancellations, appointment_id, reason)
            /\ appointments' = delete_appointment(appointments, appointment_id)
            /\ result' = Result("DELETE /appointments", "200", appointment_id,
                                <<"get_appointment", "log_cancellation_reason",
                                  "delete_appointment">>)

\* reason parameter of the DELETE route: its default
HttpReasons == {DefaultReason}

\* prompt parameter of POST /analyze-image and the text the vision model
\* answers with
Prompts == {"What do you see in this medical image?"}
Analyses == {"no fracture"}
\* f"[Uploaded an image with prompt: {prompt}]"
UploadedTurn(prompt) ==
    CASE prompt = "What do you see in this medical image?" ->
         "[Uploaded an image with prompt: What do you see in this medical image?]"
\* f"[Image analysis]: {analysis}"
AnalysisTurn(analysis) ==
    CASE analysis = "no fracture" -> "[Image analysis]: no fracture"

\* POST /analyze-image, the vision model answered: two turns are saved under
\* the user_id of the query string
analyze_image(user, prompt, analysis) ==
    /\ ~Invoking
    /\ Turns(conversation_history) + 2 <= MaxChatTurns
    /\ conversation_history' =
          save_conversation(
              save_conversation(conversation_history, user, "user",
                                UploadedTurn(prompt)),
              user, "assistant", AnalysisTurn(analysis))
    /\ result' = Result("POST /analyze-image", analysis, 0,
                        <<"save_conversation", "save_conversation">>)
    /\ mail' = NoMail
    /\ UNCHANGED <<appointments, cancellations, user_id, request, issued>>

\* POST /analyze-image, the upload is empty or the vision model raised:
\* nothing is saved, the route answers 500
analyze_image_raise ==
    /\ ~Invoking
    /\ result' = Result("POST /analyze-image", "500 Image analysis error",
                        0, <<>>)
    /\ mail' = NoMail
    /\ UNCHANGED <<appointments, cancellations, conversation_history,
                   user_id, request, issued>>

Next ==
    \/ \E m \in UserInputs, u \in Users : process_query(m, u)
    \/ \E o \in Outputs : process_query_return(o)
    \/ process_query_raise
    \/ \E a \in ToolCreateCalls :
          _create_appointment_wrapper(a[1], a[2], a[3])
    \/ \E i \in Ids, a \in UpdateCalls :
          _update_appointment_wrapper(i, a[1], a[2], a[3])
    \/ \E i \in Ids, c \in BOOLEAN, r \in ReasonArgs :
          _delete_appointment_wrapper(i, c, r)
    \/ \E u \in Users : _list_appointments_wrapper(u)
    \/ \E u \in Users, a \in RouteCreateCalls :
          app_create_appointment(u, a[1], a[2], a[3])
    \/ \E u \in Users : app_get_appointments(u)
    \/ \E i \in Ids, a \in UpdateCalls :
          app_update_appointment(i, a[1], a[2], a[3])
    \/ \E i \in Ids, r \in HttpReasons : app_delete_appointment(i, r)

Spec == Init /\ [][Next]_vars

\* The entry points that write the conversation history (chat and
\* voice-to-text through process_query, and analyze-image), with the create
\* and list tools as the tool calls of a request.
NextChat ==
    \/ \E m \in UserInputs, u \in Users : process_query(m, u)
    \/ \E o \in Outputs : process_query_return_within(o, MaxChatTurns)
    \/ process_query_raise
    \/ \E a \in ToolCreateCalls :
          _create_appointment_wrapper(a[1], a[2], a[3])
    \/ \E u \in Users : _list_appointments_wrapper(u)
    \/ \E u \in Users, p \in Prompts, a \in Analyses : analyze_image(u, p, a)
    \/ analyze_image_raise

ChatSpec == Init /\ [][NextChat]_vars

\* ==== claims ================================================================

\* the step is a call of the named tool or route with the given arguments
\* (the operation a step performed is recorded in result.op)
ToolCreate(d, p, e) ==
    result'.op = "create_appointment" /\ _create_appointment_wrapper(d, p, e)
ToolUpdate(i, d, p, e) ==
    result'.op = "update_appointment"
        /\ _update_appointment_wrapper(i, d, p, e)
ToolDelete(i, c, r) ==
    result'.op = "delete_appointment"
        /\ _delete_appointment_wrapper(i, c, r)
RouteCreate(u, d, p, e) ==
    result'.op = "POST /appointments" /\ app_create_appointment(u, d, p, e)
RouteUpdate(i, d, p, e) ==
    result'.op = "PUT /appointments" /\ app_update_appointment(i, d, p, e)
RouteDelete(i, r) ==
    result'.op = "DELETE /appointments" /\ app_delete_appointment(i, r)

\* the delete tool is called by the owner of a stored appointment
OwnerDelete(i) ==
    /\ Invoking
    /\ i \in DOMAIN appointments
    /\ appointments[i].user_id = user_id

\* C1: an appointment leaves the store only through a delete made by the
\* appointment's owner with confirmation = true and a non-empty reason; no
\* other operation, and no delete lacking one of these, removes it.
C1_RemovedOnlyByGatedDelete ==
    [][\A i \in DOMAIN appointments :
          i \notin DOMAIN appointments' =>
             \E r \in ReasonArgs :
                 /\ r # <<>>
                 /\ OwnerDelete(i)
                 /\ ToolDelete(i, TRUE, r)]_vars

\* C2: the delete tool called by the owner on a stored appointment with
\* confirmation = false, whatever the reason, returns the abort message and
\* leaves the appointment, with every field, and the cancellation log as
\* they were.
C2_UnconfirmedDeleteAborts ==
    [][\A i \in Ids, r \in ReasonArgs :
          (OwnerDelete(i) /\ ToolDelete(i, FALSE, r)) =>
             /\ result'.msg = MsgAborted
             /\ appointments' = appointments
             /\ i \in DOMAIN appointments'
             /\ cancellations' = cancellations]_vars

C2_Witness ==
    /\ result.op = "delete_appointment"
    /\ result.msg = MsgAborted
    /\ \E i \in DOMAIN appointments : appointments[i].user_id = user_id

\* C3: the delete tool called by the owner on a stored appointment with
\* confirmation = true and a reason that is empty or only whitespace returns
\* the reason-required message, leaves the appointment in the store and
\* writes no cancellation record.
C3_BlankReasonRejected ==
    [][\A i \in Ids, r \in ReasonArgs :
          (/\ OwnerDelete(i)
           /\ strip(r) = <<>>
           /\ ToolDelete(i, TRUE, r)) =>
             /\ result'.msg = MsgReasonRequired
             /\ appointments' = appointments
             /\ i \in DOMAIN appointments'
             /\ cancellations' = cancellations]_vars

C3_Witness ==
    /\ result.op = "delete_appointment"
    /\ result.msg = MsgReasonRequired
    /\ \E i \in DOMAIN appointments : appointments[i].user_id = user_id

\* the current user is not the owner of the stored appointment i
NotOwner(i) ==
    /\ Invoking
    /\ i \in DOMAIN appointments
    /\ appointments[i].user_id # user_id

\* C4: when the current user is not the owner of a stored appointment, the
\* update tool and the delete tool return their forbidden message and leave
\* the appointment, with every field, and the cancellation log unchanged,
\* whatever the other arguments.
C4_NotOwnerForbidden ==
    [][\A i \in Ids :
          NotOwner(i) =>
             /\ \A a \in UpdateCalls :
                   ToolUpdate(i, a[1], a[2], a[3]) =>
                      /\ result'.msg = MsgUpdateForbidden
                      /\ appointments' = appointments
                      /\ cancellations' = cancellations
             /\ \A c \in BOOLEAN, r \in ReasonArgs :
                   ToolDelete(i, c, r) =>
                      /\ result'.msg = MsgDeleteForbidden
                      /\ appointments' = appointments
                      /\ cancellations' = cancellations]_vars

C4_Witness ==
    /\ result.op = "delete_appointment"
    /\ result.msg = MsgDeleteForbidden
    /\ \E i \in DOMAIN appointments : appointments[i].user_id # user_id

\* C5: a create whose email fails the format validation creates no record
\* and answers with the invalid-email rejection (the route: with its 400
\* response), at every create entry point (the create tool and
\* POST /appointments).
C5_InvalidEmailCreatesNothing ==
    [][/\ \A a \in ToolCreateCalls :
             (~_validate_email(a[3]) /\ ToolCreate(a[1], a[2], a[3])) =>
                /\ appointments' = appointments
                /\ result'.msg = MsgInvalidEmail
       /\ \A u \in Users, a \in RouteCreateCalls :
             (/\ a[3] # NoneSeq
              /\ ~_validate_email(a[3])
              /\ RouteCreate(u, a[1], a[2], a[3])) =>
                /\ appointments' = appointments
                /\ result'.msg = "400 Error creating appointment"]_vars

\* the fields of appointment i after an update are `fields`, its id, owner
\* and status are as before, and every other appointment is untouched
UpdateFrame(i, fields) ==
    /\ DOMAIN appointments' = DOMAIN appointments
    /\ appointments'[i] = [appointments[i] EXCEPT
                               !.date_time = fields.date_time,
                               !.purpose = fields.purpose,
                               !.email = fields.email]
    /\ \A j \in DOMAIN appointments \ {i} : appointments'[j] = appointments[j]

\* what a successful update of appointment i must leave in its three mutable
\* fields when an argument counts as supplied as soon as it is not None
SuppliedNotNone(i, d, p, e) ==
    [date_time |-> IF d # None THEN fromisoformat(d)
                   ELSE appointments[i].date_time,
     purpose |-> IF p # None THEN p ELSE appointments[i].purpose,
     email |-> IF e # NoneSeq THEN e ELSE appointments[i].email]

\* the same when an argument counts as supplied only if it is not None and
\* not the empty string
SuppliedNonEmpty(i, d, p, e) ==
    [date_time |-> IF d # None /\ d # "" THEN fromisoformat(d)
                   ELSE appointments[i].date_time,
     purpose |-> IF p # None /\ p # "" THEN p ELSE appointments[i].purpose,
     email |-> IF e # NoneSeq /\ e # <<>> THEN e ELSE appointments[i].email]

ToolUpdateSucceeds(i, d, p, e) ==
    /\ result'.msg \in {MsgUpdated, MsgUpdatedNotified}
    /\ result'.id = i
    /\ ToolUpdate(i, d, p, e)

RouteUpdateSucceeds(i, d, p, e) ==
    /\ result'.msg = "200"
    /\ result'.id = i
    /\ RouteUpdate(i, d, p, e)

\* C6 as stated: a successful update changes exactly the fields supplied in
\* the call among date_time, purpose and email; the fields not supplied keep
\* their value and every other appointment is untouched.
C6_UpdateSetsSuppliedFields ==
    [][\A i \in DOMAIN appointments :
          \A a \in UpdateCalls :
             /\ ToolUpdateSucceeds(i, a[1], a[2], a[3]) =>
                   UpdateFrame(i, SuppliedNotNone(i, a[1], a[2], a[3]))
             /\ RouteUpdateSucceeds(i, a[1], a[2], a[3]) =>
                   UpdateFrame(i, SuppliedNotNone(i, a[1], a[2], a[3]))]_vars

\* C6 amended: a successful update sets exactly the fields supplied with a
\* non-empty value (date_time to the parsed datetime); a field that is omitted
\* or supplied as the empty string keeps its value, and every other
\* appointment is untouched.
C6_UpdateSetsNonEmptyFields ==
    [][\A i \in DOMAIN appointments :
          \A a \in UpdateCalls :
             /\ ToolUpdateSucceeds(i, a[1], a[2], a[3]) =>
                   UpdateFrame(i, SuppliedNonEmpty(i, a[1], a[2], a[3]))
             /\ RouteUpdateSucceeds(i, a[1], a[2], a[3]) =>
                   UpdateFrame(i, SuppliedNonEmpty(i, a[1], a[2], a[3]))]_vars

C6_Witness ==
    /\ result.op = "update_appointment"
    /\ result.msg \in {MsgUpdated, MsgUpdatedNotified}
    /\ Cardinality(DOMAIN appointments) = 2
    /\ appointments[result.id].purpose = "follow-up"
    /\ appointments[result.id].date_time = D1
    /\ \E j \in DOMAIN appointments : appointments[j].purpose = "checkup"

\* C7: over any sequence of creates, updates and deletes, every create yields
\* an id that no appointment ever created before had, deleted ones included:
\* the ids in the store have all been drawn, a drawn id stays drawn, and an id
\* entering the store was not drawn before.
C7_IdsNeverReused ==
    /\ [](DOMAIN appointments \subseteq issued)
    /\ [][/\ issued \subseteq issued'
          /\ \A i \in DOMAIN appointments' \ DOMAIN appointments :
                i \notin issued]_vars

C7_Witness ==
    /\ result.msg \in {MsgCreated, "200"}
    /\ result.op \in {"create_appointment", "POST /appointments"}
    /\ result.id \in DOMAIN appointments
    /\ \E j \in issued : j \notin DOMAIN appointments /\ j # result.id

\* C8: the list tool, called during a request of user A, shows only
\* appointments of A, never one of another user, whatever user_id argument
\* it is called with.
C8_ListShowsCurrentUserOnly ==
    (Invoking /\ result.op = "list_appointments") =>
        \A i \in result.shown : appointments[i].user_id = request.user_id

\* the store calls log_cancellation_reason before delete_appointment
LoggedBeforeDeleted(calls) ==
    \E a, b \in 1..Len(calls) :
        /\ a < b
        /\ calls[a] = "log_cancellation_reason"
        /\ calls[b] = "delete_appointment"

\* the effect of a completed delete of appointment i with reason r
DeletedWithReason(i, r) ==
    /\ ~get_appointment(appointments', i)
    /\ i \notin get_appointments(appointments', appointments[i].user_id)
    /\ i \in DOMAIN cancellations'
    /\ cancellations'[i] = r
    /\ LoggedBeforeDeleted(result'.calls)
    /\ \A j \in DOMAIN appointments \ {i} :
          j \in DOMAIN appointments' /\ appointments'[j] = appointments[j]

\* C9 as stated: a delete by the owner with confirmation = true and a
\* non-empty reason removes the appointment and leaves a cancellation record
\* under its id with exactly that reason, written before the removal.
C9_NonEmptyReasonDeletes ==
    [][\A i \in Ids, r \in ReasonArgs :
          (OwnerDelete(i) /\ r # <<>> /\ ToolDelete(i, TRUE, r)) =>
             DeletedWithReason(i, r)]_vars

\* C9 amended: a delete by the owner with confirmation = true and a reason
\* that is not empty once stripped of whitespace removes the appointment and
\* leaves a cancellation record under its id with exactly the reason
\* supplied (not stripped), written before the removal; get(id) is then
\* absent and the appointment is no longer in the owner's list.
C9_NonBlankReasonDeletes ==
    [][\A i \in Ids, r \in ReasonArgs :
          (OwnerDelete(i) /\ strip(r) # <<>> /\ ToolDelete(i, TRUE, r)) =>
             DeletedWithReason(i, r)]_vars

C9_Witness ==
    /\ result.op = "delete_appointment"
    /\ result.msg \in {MsgCancelled, MsgCancelledNotified}
    /\ result.id \notin DOMAIN appointments
    /\ result.id \in DOMAIN cancellations
    /\ cancellations[result.id] = ReasonPadded

\* C10: a delete naming an id that is not in the store, by the tool or by
\* the DELETE route, answers not-found and leaves the appointment map and the
\* cancellation log as they were.
C10_UnknownIdNotFound ==
    [][\A i \in Ids :
          i \notin DOMAIN appointments =>
             /\ \A c \in BOOLEAN, r \in ReasonArgs :
                   ToolDelete(i, c, r) =>
                      /\ result'.msg = MsgNotFound
                      /\ appointments' = appointments
                      /\ cancellations' = cancellations
             /\ \A r \in HttpReasons :
                   RouteDelete(i, r) =>
                      /\ result'.msg = "404 Appointment not found"
                      /\ appointments' = appointments
                      /\ cancellations' = cancellations]_vars

C10_Witness ==
    /\ result.msg \in {MsgNotFound, "404 Appointment not found"}
    /\ result.op \in {"delete_appointment", "DELETE /appointments"}
    /\ cancellations # <<>>
    /\ appointments # <<>>

\* the step called send_email and the notification did not go out
NotificationFailed ==
    /\ \E k \in 1..Len(result'.calls) : result'.calls[k] = "send_email"
    /\ ~mail'.delivered

\* C11: when send_email fails during a create, update or delete tool call,
\* the store change made by the call stays committed and the tool reports
\* the operation as succeeded.
C11_NotificationFailureKeepsSuccess ==
    [][NotificationFailed =>
          /\ \A a \in ToolCreateCalls :
                ToolCreate(a[1], a[2], a[3]) =>
                   /\ result'.msg = MsgCreated
                   /\ result'.id \in DOMAIN appointments' \ DOMAIN appointments
                   /\ appointments'[result'.id].email = a[3]
          /\ \A i \in DOMAIN appointments, a \in UpdateCalls :
                ToolUpdate(i, a[1], a[2], a[3]) =>
                   /\ result'.msg = MsgUpdatedNotified
                   /\ UpdateFrame(i, SuppliedNonEmpty(i, a[1], a[2], a[3]))
          /\ \A i \in DOMAIN appointments, c \in BOOLEAN, r \in ReasonArgs :
                ToolDelete(i, c, r) =>
                   /\ result'.msg = MsgCancelledNotified
                   /\ i \notin DOMAIN appointments'
                   /\ i \in DOMAIN cancellations']_vars

\* s is an initial segment of t
IsPrefix(s, t) == Len(s) <= Len(t) /\ SubSeq(t, 1, Len(s)) = s

\* the sequence of user u in history hist, empty when u has none
TurnsOf(hist, u) == IF u \in DOMAIN hist THEN hist[u] ELSE <<>>

\* the step is the end of a process_query call
QueryEnds == Invoking /\ result'.op = "process_query"

\* C12: the per-user conversation log is append-only.  No step alters or
\* removes a turn; a process_query that obtains an output appends exactly
\* two turns to the sequence of its user, the inbound message as role user
\* followed by the output as role assistant, and leaves every other user's
\* sequence as it was; a process_query whose interpretation step fails
\* appends nothing.
C12_LogAppendOnly ==
    [][/\ \A u \in DOMAIN conversation_history :
             /\ u \in DOMAIN conversation_history'
             /\ IsPrefix(conversation_history[u], conversation_history'[u])
       /\ (QueryEnds /\ result'.msg \in Outputs) =>
             /\ TurnsOf(conversation_history', request.user_id) =
                   TurnsOf(conversation_history, request.user_id)
                     \o << <<"user", request.user_input>>,
                           <<"assistant", result'.msg>> >>
             /\ \A v \in Users \ {request.user_id} :
                   TurnsOf(conversation_history', v) =
                      TurnsOf(conversation_history, v)
       /\ (QueryEnds /\ result'.msg \notin Outputs) =>
             conversation_history' = conversation_history]_vars

\* a process_query has just appended to a sequence that held turns, while
\* another user holds a sequence too
C12_Witness ==
    /\ result.op = "process_query"
    /\ result.msg \in Outputs
    /\ \E u, v \in DOMAIN conversation_history :
          /\ u # v
          /\ Len(conversation_history[u]) = 4
          /\ conversation_history[u][4] = <<"assistant", result.msg>>
          /\ conversation_history[u][3][1] = "user"
          /\ conversation_history[u][3][2] \in UserInputs
          /\ Len(conversation_history[v]) = 2

\* C13: requests of different users do not interact: every tool call made
\* during the request of user A acts under A.  An appointment it creates is
\* owned by A, update and delete answer forbidden exactly when the
\* appointment is not A's, and list shows exactly A's appointments.  (The
\* routes are coroutines that call process_query without awaiting anything
\* inside it, so the event loop runs the process_query calls of requests
\* that arrive together one after the other, in any order of users.)
C13_ToolsActUnderRequestUser ==
    [][Invoking =>
          /\ (result'.op = "create_appointment" /\ result'.msg = MsgCreated) =>
                appointments'[result'.id].user_id = request.user_id
          /\ \A i \in DOMAIN appointments :
                /\ \A a \in UpdateCalls :
                      ToolUpdate(i, a[1], a[2], a[3]) =>
                         (result'.msg = MsgUpdateForbidden
                            <=> appointments[i].user_id # request.user_id)
                /\ \A c \in BOOLEAN, r \in ReasonArgs :
                      ToolDelete(i, c, r) =>
                         (result'.msg = MsgDeleteForbidden
                            <=> appointments[i].user_id # request.user_id)
          /\ result'.op = "list_appointments" =>
                result'.shown =
                   get_appointments(appointments, request.user_id)]_vars

\* C14: from its creation to its deletion, over the tools and the routes,
\* an appointment keeps its id (the key it is stored under) and its user_id,
\* and its status is always scheduled.
C14_IdOwnerStatusFixed ==
    /\ [](\A i \in DOMAIN appointments :
             /\ appointments[i].id = i
             /\ appointments[i].status = "scheduled")
    /\ [][\A i \in DOMAIN appointments \cap DOMAIN appointments' :
             /\ appointments'[i].id = appointments[i].id
             /\ appointments'[i].user_id = appointments[i].user_id]_vars

\* an appointment of u1 has been given a new date, purpose and email by an
\* update
C14_Witness ==
    /\ result.op \in {"update_appointment", "PUT /appointments"}
    /\ result.id \in DOMAIN appointments
    /\ appointments[result.id].date_time = D2
    /\ appointments[result.id].purpose = "follow-up"
    /\ appointments[result.id].user_id = "u1"
    /\ appointments[result.id].status = "scheduled"

\* the call supplies an email that fails the format validation, next to a
\* date that is left out or parses
InvalidEmailUpdate(a) ==
    /\ a[3] # NoneSeq
    /\ ~_validate_email(a[3])
    /\ (a[1] = None \/ fromisoformat(a[1]) # ParseError)

\* C15: an update of a stored appointment (by its owner through the tool, or
\* through PUT /appointments) that supplies an email failing the format
\* validation is rejected as an invalid email and applies nothing: no field
\* of the appointment changes, also when a valid date_time or purpose comes
\* with it, and no update notification is dispatched.
C15_InvalidEmailUpdatesNothing ==
    [][\A i \in DOMAIN appointments : \A a \in UpdateCalls :
          InvalidEmailUpdate(a) =>
             /\ (OwnerDelete(i) /\ ToolUpdate(i, a[1], a[2], a[3])) =>
                   /\ result'.msg = MsgInvalidEmail
                   /\ appointments' = appointments
                   /\ mail' = NoMail
             /\ RouteUpdate(i, a[1], a[2], a[3]) =>
                   /\ result'.msg = "400 Error updating appointment"
                   /\ appointments' = appointments
                   /\ mail' = NoMail]_vars

\* C16: a cancellation record is written only as part of a deletion.
\* Between operations no id has both a cancellation record and an
\* appointment in the store; a record appears only for an appointment the
\* same operation removes; the set of ids with a record never shrinks.
C16_RecordOnlyWithDeletion ==
    /\ [](DOMAIN cancellations \cap DOMAIN appointments = {})
    /\ [][/\ DOMAIN cancellations \subseteq DOMAIN cancellations'
          /\ \A i \in DOMAIN cancellations' \ DOMAIN cancellations :
                /\ i \in DOMAIN appointments
                /\ i \notin DOMAIN appointments']_vars

\* both appointments ever created have been deleted, the second one through
\* the DELETE route, and each left its record
C16_Witness ==
    /\ result.op = "DELETE /appointments"
    /\ result.msg = "200"
    /\ Cardinality(DOMAIN cancellations) = 2
    /\ cancellations[result.id] = DefaultReason
    /\ \E j \in DOMAIN cancellations : cancellations[j] = ReasonPadded
    /\ appointments = <<>>

====
